---- MODULE Spec2Model ----
(***************************************************************************)
(* Model of src/native/ax-insert/src/ax-insert.cpp: the KeyboardInputSystem *)
(* class (event source, chunking loop, UTF-8 -> UTF-16 delivery as key     *)
(* events), the process-wide singleton and the AxInsertBinding entry point.*)
(*                                                                         *)
(* Bytes are integers 0..255, strings are sequences of bytes.  Positions   *)
(* and lengths keep the 0-based convention of the C++ code; the byte the   *)
(* code reads as text[k] is text[k + 1] here.                              *)
(***************************************************************************)
EXTENDS Integers, Sequences, FiniteSets, TLC

(***************************************************************************)
(* Bounds of the model.                                                    *)
(***************************************************************************)
\* longest text, in bytes, handed to an insertion
MaxLen == 4
\* largest explicit chunkSize argument handed to inputLargeText
MaxChunkSize == 3
\* event sources the platform hands out before it refuses every request
MaxSources == 2
\* key events the platform refuses to create during one insertion
MaxEventFailures == 1
\* width in bits of the chunk counter and of the delay counters
CounterBits == 3
\* longest text, in bytes, of the second, concurrent caller
MaxLen2 == 1

\* the default value of the chunkSize parameter of inputLargeText
DefaultChunkSize == 1000

\* the null pointer / NULL reference
NULL == 0

\* bytes the texts are made of: NUL, 'a', a 2-, a 3- and a 4-byte lead byte
\* and one continuation byte
Bytes == {0, 97, 195, 226, 240, 159}

RECURSIVE SeqsUpTo(_, _)
SeqsUpTo(S, n) ==
    IF n = 0 THEN {<<>>}
    ELSE LET shorter == SeqsUpTo(S, n - 1)
         IN  shorter \cup {Append(s, b) : s \in {t \in shorter : Len(t) = n - 1}, b \in S}

Texts == SeqsUpTo(Bytes, MaxLen)

\* texts of the second caller
Texts2 == SeqsUpTo(Bytes, MaxLen2)

CounterModulus == 2 ^ CounterBits

(***************************************************************************)
(* Pure functions of the code.                                             *)
(***************************************************************************)
Min(a, b) == IF a < b THEN a ELSE b

\* std::string::substr(pos, n), for pos <= size
substr(t, pos, n) == SubSeq(t, pos + 1, Min(pos + n, Len(t)))

\* lastByte & 0xE0 == 0xC0, lastByte & 0xF0 == 0xE0, lastByte & 0xF8 == 0xF0
IsLeadByte(b) == \/ b \div 32 = 6
                 \/ b \div 16 = 14
                 \/ b \div 8 = 30

\* a variant without the backoff from a lead byte
adjustChunkSize_NoBackoff(t, pos, cs) ==
    IF pos + cs >= Len(t) THEN Len(t) - pos ELSE cs

\* KeyboardInputSystem::adjustChunkSize
adjustChunkSize(t, pos, cs) ==
    LET endPosition == pos + cs
    IN  IF endPosition >= Len(t) THEN Len(t) - pos
        ELSE IF IsLeadByte(t[endPosition]) THEN cs - 1
        ELSE cs

\* the lengths of the chunks the while loop of inputLargeTextOptimized cuts
\* from byte p of t on, when every chunk is delivered
RECURSIVE ChunkLengthsFrom(_, _, _)
ChunkLengthsFrom(t, S, p) ==
    IF p >= Len(t) THEN <<>>
    ELSE LET adjusted == adjustChunkSize(t, p, Min(S, Len(t) - p))
         IN  <<adjusted>> \o ChunkLengthsFrom(t, S, p + adjusted)

\* std::string::c_str() read as a C string: the bytes before the first NUL
RECURSIVE CStr(_)
CStr(t) == IF t = <<>> \/ Head(t) = 0 THEN <<>> ELSE <<Head(t)>> \o CStr(Tail(t))

IsCont(b) == b \div 64 = 2

\* result of a failed string creation (a NULL CFStringRef)
NoString == [ok |-> FALSE, units |-> <<>>]

\* UTF-8 -> UTF-16: NoString when the bytes are not well-formed UTF-8, else
\* the code units (a surrogate pair for a code point above 0xFFFF)
RECURSIVE Utf8ToUtf16(_)
Utf8ToUtf16(t) ==
    IF t = <<>> THEN [ok |-> TRUE, units |-> <<>>]
    ELSE
      LET b0 == t[1]
          n  == IF b0 < 128 THEN 1
                ELSE IF b0 >= 194 /\ b0 <= 223 THEN 2
                ELSE IF b0 >= 224 /\ b0 <= 239 THEN 3
                ELSE IF b0 >= 240 /\ b0 <= 244 THEN 4
                ELSE 0
      IN
      IF n = 0 \/ Len(t) < n THEN NoString
      ELSE IF \E k \in 2..n : ~IsCont(t[k]) THEN NoString
      ELSE IF \/ (b0 = 224 /\ t[2] < 160)
              \/ (b0 = 237 /\ t[2] > 159)
              \/ (b0 = 240 /\ t[2] < 144)
              \/ (b0 = 244 /\ t[2] > 143) THEN NoString
      ELSE
        LET cp == IF n = 1 THEN b0
                  ELSE IF n = 2 THEN (b0 - 192) * 64 + (t[2] - 128)
                  ELSE IF n = 3 THEN (b0 - 224) * 4096 + (t[2] - 128) * 64 + (t[3] - 128)
                  ELSE (b0 - 240) * 262144 + (t[2] - 128) * 4096
                       + (t[3] - 128) * 64 + (t[4] - 128)
            units == IF cp < 65536 THEN <<cp>>
                     ELSE << 55296 + ((cp - 65536) \div 1024),
                             56320 + ((cp - 65536) % 1024) >>
            rest == Utf8ToUtf16(SubSeq(t, n + 1, Len(t)))
        IN  IF rest.ok THEN [ok |-> TRUE, units |-> units \o rest.units]
            ELSE NoString

\* CFStringCreateWithCString(text.c_str(), kCFStringEncodingUTF8) followed by
\* CFStringGetCharacters: NoString, or the UTF-16 code units of the C string
CFStringCreateWithCString(t) == Utf8ToUtf16(CStr(t))

(***************************************************************************)
(* State.                                                                  *)
(***************************************************************************)
VARIABLES
    gKeyboardSystem,    \* "nullptr" or "instance": the singleton pointer
    source,             \* _source: NULL or the handle of an event source
    isInitialized,      \* _isInitialized
    created,            \* number of event sources the platform has created
    objects,            \* KeyboardInputSystem objects constructed and not deleted
    released,           \* handles passed to CFRelease, in release order
    pc,                 \* "idle", "loop", "events", "done"
    caller,             \* "none", "binding" (InsertText) or "direct"
    text,               \* the text of the insertion in progress
    chunkSize,          \* the chunkSize argument of inputLargeText
    chunked,            \* TRUE inside inputLargeTextOptimized
    position,           \* position
    chunkCount,         \* chunkCount
    adjustedChunkSize,  \* adjustedChunkSize of the chunk last cut
    chunk,              \* the string handed to inputTextInternal
    unicodeChars,       \* unicodeChars of the chunk being delivered
    i,                  \* index of the for loop of inputUnicodeText
    posted,             \* events given to CGEventPost by this insertion
    cut,                \* concatenation of the chunks cut so far
    failures,           \* events the platform refused during this insertion
    charDelays,         \* usleep(5000) calls of this insertion
    chunkDelays,        \* usleep(100000) calls of this insertion
    success,            \* value returned by the insertion
    method,             \* result.method of InsertText
    error,              \* result.error of InsertText: "null" or "message"
    deliveries,         \* calls of inputTextInternal by this insertion
    tap,                \* the callers (1, 2) of CGEventPost, in posting
                        \* order, for the requests that have not returned
    pc2,                \* second caller: "idle", "construct", "check",
                        \* "events", "done"
    text2,              \* second caller: text of its InsertText call
    unicodeChars2,      \* second caller: unicodeChars
    i2,                 \* second caller: index of the for loop
    success2            \* second caller: value returned

injector == <<gKeyboardSystem, source, isInitialized, created, released, objects>>
request  == <<caller, text, chunkSize, chunked, position, chunkCount,
              adjustedChunkSize, chunk, unicodeChars, i, posted, cut,
              failures, charDelays, chunkDelays, success, method, error,
              deliveries>>
second   == <<pc2, text2, unicodeChars2, i2, success2>>
vars == <<injector, pc, request, second, tap>>

(***************************************************************************)
(* Initial state: the module is loaded, no singleton, nothing in progress. *)
(***************************************************************************)
NoRequest ==
    /\ caller = "none"
    /\ text = <<>>
    /\ chunkSize = 0
    /\ chunked = FALSE
    /\ position = 0
    /\ chunkCount = 0
    /\ adjustedChunkSize = 0
    /\ chunk = <<>>
    /\ unicodeChars = <<>>
    /\ i = 0
    /\ posted = <<>>
    /\ cut = <<>>
    /\ failures = 0
    /\ charDelays = 0
    /\ chunkDelays = 0
    /\ success = FALSE
    /\ method = "unset"
    /\ error = "unset"
    /\ deliveries = 0

Init ==
    /\ gKeyboardSystem = "nullptr"
    /\ source = NULL
    /\ isInitialized = FALSE
    /\ created = 0
    /\ released = <<>>
    /\ objects = 0
    /\ pc = "idle"
    /\ NoRequest
    /\ tap = <<>>
    /\ pc2 = "idle"
    /\ text2 = <<>>
    /\ unicodeChars2 = <<>>
    /\ i2 = 0
    /\ success2 = FALSE

(***************************************************************************)
(* The injector.                                                           *)
(***************************************************************************)
\* a variant that sets the flag without looking at the event source
initialize_FlagSet(grant) ==
    /\ grant => created < MaxSources
    /\ source' = IF grant THEN created + 1 ELSE NULL
    /\ created' = IF grant THEN created + 1 ELSE created
    /\ isInitialized' = TRUE

\* KeyboardInputSystem::initialize; grant is what CGEventSourceCreate does
initialize(grant) ==
    /\ grant => created < MaxSources
    /\ source' = IF grant THEN created + 1 ELSE NULL
    /\ created' = IF grant THEN created + 1 ELSE created
    /\ isInitialized' = (source' # NULL)

\* getKeyboardSystem: constructs the singleton on first use
getKeyboardSystem(grant) ==
    IF gKeyboardSystem = "nullptr"
    THEN /\ gKeyboardSystem' = "instance"
         /\ initialize(grant)
         /\ objects' = objects + 1
         /\ UNCHANGED released
    ELSE /\ grant = FALSE
         /\ UNCHANGED injector

\* a variant of the destructor that forgets CFRelease
Destructor_NoRelease(src, rel) == rel

\* KeyboardInputSystem::~KeyboardInputSystem: the handles released once the
\* object that holds src is destroyed
Destructor(src, rel) == IF src # NULL THEN Append(rel, src) ELSE rel

\* cleanupKeyboardSystem, with the destructor of KeyboardInputSystem
cleanupKeyboardSystem ==
    /\ pc = "idle"
    /\ pc2 = "idle"
    /\ IF gKeyboardSystem # "nullptr"
       THEN /\ released' = Destructor(source, released)
            /\ gKeyboardSystem' = "nullptr"
            /\ source' = NULL
            /\ isInitialized' = FALSE
            /\ objects' = objects - 1
            /\ UNCHANGED created
       ELSE UNCHANGED injector
    /\ UNCHANGED <<pc, request, second, tap>>

\* an explicit call of the public method initialize() on the singleton
Initialize ==
    /\ pc = "idle"
    /\ gKeyboardSystem = "instance"
    /\ \E grant \in BOOLEAN : initialize(grant)
    /\ UNCHANGED <<gKeyboardSystem, released, objects, pc, request, second, tap>>

(***************************************************************************)
(* An insertion.                                                           *)
(***************************************************************************)
\* a variant that names the method whatever the outcome
ResultMethod_Always(who, ok) == IF who = "binding" THEN "keyboard" ELSE "unset"

\* the fields InsertText puts in its result object
ResultMethod(who, ok) == IF who = "binding" THEN (IF ok THEN "keyboard" ELSE "") ELSE "unset"
ResultError(who, ok)  == IF who = "binding" THEN (IF ok THEN "null" ELSE "message") ELSE "unset"

\* the insertion returns ok to its caller
Finish(who, ok) ==
    /\ pc' = "done"
    /\ success' = ok
    /\ method' = ResultMethod(who, ok)
    /\ error' = ResultError(who, ok)

\* the insertion goes on at label l
Goto(l) ==
    /\ pc' = l
    /\ UNCHANGED <<success, method, error>>

\* a variant of the guard that lets an uninitialized injector go on
NotInitialized_Skipped(init) == FALSE

\* the guard `!_isInitialized` of inputLargeText, which simulateKeyboardInput
\* repeats as `!keyboard->isInitialized()` before the call
NotInitialized(init) == ~init

\* a variant of the test that takes a NULL CFString for an empty one
DeliveryFailed_Ignored(cfString) == FALSE

\* `if (!cfString) return false` of inputUnicodeText, which the callers pass
\* on: `if (!inputTextInternal(chunk)) return false`
DeliveryFailed(cfString) == ~cfString.ok

\* a variant of the test that sends the empty text down the single-chunk path
IsEmptyText_Never(t) == FALSE

\* `if (text.empty()) return true` of inputLargeText
IsEmptyText(t) == t = <<>>

\* a variant of the test that also chunks a text of exactly chunkSize bytes
NeedsChunking_AtSize(t, cs) == Len(t) >= cs

\* `if (text.length() > chunkSize)` of inputLargeText
NeedsChunking(t, cs) == Len(t) > cs

\* KeyboardInputSystem::inputLargeText(t, cs) on an instance whose
\* _isInitialized is init, up to the first event of the single-chunk path or
\* the head of the loop of inputLargeTextOptimized
inputLargeText(who, init, t, cs) ==
    /\ caller' = who
    /\ text' = t
    /\ chunkSize' = cs
    /\ position' = 0
    /\ chunkCount' = 0
    /\ adjustedChunkSize' = 0
    /\ i' = 0
    /\ posted' = <<>>
    /\ cut' = <<>>
    /\ failures' = 0
    /\ charDelays' = 0
    /\ chunkDelays' = 0
    /\ UNCHANGED <<second, tap>>
    /\ IF NotInitialized(init)
       THEN /\ Finish(who, FALSE)
            /\ chunked' = FALSE /\ chunk' = <<>> /\ unicodeChars' = <<>>
            /\ deliveries' = 0
       ELSE IF IsEmptyText(t)
       THEN /\ Finish(who, TRUE)
            /\ chunked' = FALSE /\ chunk' = <<>> /\ unicodeChars' = <<>>
            /\ deliveries' = 0
       ELSE IF NeedsChunking(t, cs)
       THEN /\ Goto("loop")
            /\ chunked' = TRUE /\ chunk' = <<>> /\ unicodeChars' = <<>>
            /\ deliveries' = 0
       ELSE LET cfString == CFStringCreateWithCString(t)
            IN  /\ chunked' = FALSE
                /\ chunk' = t
                /\ deliveries' = 1
                /\ unicodeChars' = cfString.units
                /\ IF DeliveryFailed(cfString) THEN Finish(who, FALSE) ELSE Goto("events")

\* AxInsertBinding::InsertText -> simulateKeyboardInput(text)
simulateKeyboardInput ==
    /\ pc = "idle"
    /\ \E t \in Texts, grant \in BOOLEAN :
          /\ getKeyboardSystem(grant)
          /\ inputLargeText("binding", isInitialized', t, DefaultChunkSize)

\* inputLargeText called on the singleton with an explicit chunkSize
InputLargeTextCall ==
    /\ pc = "idle"
    /\ gKeyboardSystem = "instance"
    /\ \E t \in Texts, cs \in 1..MaxChunkSize :
          inputLargeText("direct", isInitialized, t, cs)
    /\ UNCHANGED injector

\* one iteration of the while loop of inputLargeTextOptimized, up to the
\* creation of the CFString of the chunk; or the return after the loop
inputLargeTextOptimized ==
    /\ pc = "loop"
    /\ IF position < Len(text)
       THEN LET remaining == Len(text) - position
                currentChunkSize == Min(chunkSize, remaining)
                adjusted == adjustChunkSize(text, position, currentChunkSize)
                ch == substr(text, position, adjusted)
                cfString == CFStringCreateWithCString(ch)
            IN  /\ adjustedChunkSize' = adjusted
                /\ chunk' = ch
                /\ cut' = cut \o ch
                /\ deliveries' = (deliveries + 1) % CounterModulus
                /\ unicodeChars' = cfString.units
                /\ i' = 0
                /\ IF DeliveryFailed(cfString) THEN Finish(caller, FALSE) ELSE Goto("events")
       ELSE /\ Finish(caller, TRUE)
            /\ UNCHANGED <<adjustedChunkSize, chunk, cut, unicodeChars, i, deliveries>>
    /\ UNCHANGED <<injector, caller, text, chunkSize, chunked, position,
                   chunkCount, posted, failures, charDelays, chunkDelays,
                   second, tap>>

\* the events one iteration of the for loop posts: downOk and upOk are what
\* CGEventCreateKeyboardEvent does for the key-down and the key-up event
EventsOf(u, downOk, upOk) ==
    IF ~downOk THEN <<>>
    ELSE IF ~upOk THEN << <<"down", u>> >>
    ELSE << <<"down", u>>, <<"up", u>> >>

\* the entries a caller adds to the event tap with the events it posts
RECURSIVE TapOf(_, _)
TapOf(who, events) == IF events = <<>> THEN <<>> ELSE <<who>> \o TapOf(who, Tail(events))

\* one iteration of the for loop of inputUnicodeText
inputUnicodeText ==
    /\ pc = "events"
    /\ i < Len(unicodeChars)
    /\ \E downOk \in BOOLEAN, upOk \in BOOLEAN :
          /\ ~downOk => upOk
          /\ failures' = failures + (IF downOk /\ upOk THEN 0 ELSE 1)
          /\ failures' <= MaxEventFailures
          /\ posted' = posted \o EventsOf(unicodeChars[i + 1], downOk, upOk)
          /\ tap' = tap \o TapOf(1, EventsOf(unicodeChars[i + 1], downOk, upOk))
          /\ charDelays' = IF downOk THEN charDelays + 1 ELSE charDelays
    /\ i' = i + 1
    /\ UNCHANGED <<injector, pc, caller, text, chunkSize, chunked, position,
                   chunkCount, adjustedChunkSize, chunk, unicodeChars, cut,
                   chunkDelays, success, method, error, deliveries, second>>

\* inputUnicodeText returns true: the single-chunk insertion returns, or the
\* loop of inputLargeTextOptimized advances and sleeps between chunks
ChunkDelivered ==
    /\ pc = "events"
    /\ i >= Len(unicodeChars)
    /\ IF chunked
       THEN /\ position' = position + adjustedChunkSize
            /\ chunkCount' = (chunkCount + 1) % CounterModulus
            /\ chunkDelays' = IF position' < Len(text)
                              THEN (chunkDelays + 1) % CounterModulus
                              ELSE chunkDelays
            /\ Goto("loop")
       ELSE /\ Finish(caller, TRUE)
            /\ UNCHANGED <<position, chunkCount, chunkDelays>>
    /\ UNCHANGED <<injector, caller, text, chunkSize, chunked,
                   adjustedChunkSize, chunk, unicodeChars, i, posted, cut,
                   failures, charDelays, deliveries, second, tap>>

\* the caller has its result; the next request may start
Return ==
    /\ pc = "done"
    /\ pc' = "idle"
    /\ caller' = "none"
    /\ text' = <<>>
    /\ chunkSize' = 0
    /\ chunked' = FALSE
    /\ position' = 0
    /\ chunkCount' = 0
    /\ adjustedChunkSize' = 0
    /\ chunk' = <<>>
    /\ unicodeChars' = <<>>
    /\ i' = 0
    /\ posted' = <<>>
    /\ cut' = <<>>
    /\ failures' = 0
    /\ charDelays' = 0
    /\ chunkDelays' = 0
    /\ success' = FALSE
    /\ method' = "unset"
    /\ error' = "unset"
    /\ deliveries' = 0
    /\ tap' = SelectSeq(tap, LAMBDA c : c # 1)
    /\ UNCHANGED <<injector, second>>

Next ==
    \/ simulateKeyboardInput
    \/ InputLargeTextCall
    \/ inputLargeTextOptimized
    \/ inputUnicodeText
    \/ ChunkDelivered
    \/ Return
    \/ cleanupKeyboardSystem

Spec == Init /\ [][Next]_vars

\* the scheduling of a running insertion: the calling thread keeps running
Running == inputLargeTextOptimized \/ inputUnicodeText \/ ChunkDelivered

NextInit == Next \/ Initialize

\* the program with explicit calls of initialize() added
SpecInit == Init /\ [][NextInit]_vars

TypeOK ==
    /\ gKeyboardSystem \in {"nullptr", "instance"}
    /\ source \in 0..MaxSources
    /\ isInitialized \in BOOLEAN
    /\ created \in 0..MaxSources
    /\ pc \in {"idle", "loop", "events", "done"}
    /\ text \in Texts
    /\ position \in 0..MaxLen

\* the program under the scheduling of a running insertion: it runs on the
\* calling thread, which blocks in usleep and continues
FairSpec == Spec /\ WF_vars(Running)

(***************************************************************************)
(* Vocabulary of the properties.                                           *)
(***************************************************************************)
IsPrefix(s, t) == Len(s) <= Len(t) /\ s = SubSeq(t, 1, Len(s))

\* the text is well-formed UTF-8 (NUL is the character U+0000)
WellFormed(t) == Utf8ToUtf16(t).ok

\* the UTF-16 code units of the whole text
TextUnits(t) == Utf8ToUtf16(t).units

\* byte offset k of t lies between two characters of a well-formed t
CharBoundary(t, k) == k = 0 \/ k >= Len(t) \/ ~IsCont(t[k + 1])

\* down(u1), up(u1), down(u2), up(u2), ...
RECURSIVE KeyPairs(_)
KeyPairs(us) ==
    IF us = <<>> THEN <<>>
    ELSE << <<"down", Head(us)>>, <<"up", Head(us)>> >> \o KeyPairs(Tail(us))

(***************************************************************************)
(* C1: for every non-empty text T and every chunk size S >= 1 the chunks   *)
(* cut by the chunking loop, concatenated in the order produced, are       *)
(* exactly T: at every moment they are a prefix of T (contiguous from byte *)
(* 0, no gap, no overlap), and the loop goes on until they reach |T|,      *)
(* unless the delivery of a chunk fails and aborts the loop.               *)
(***************************************************************************)
C1_RoundTrip ==
    /\ [](chunked => IsPrefix(cut, text))
    /\ (chunked /\ pc = "loop") ~> (cut = text \/ (pc = "done" /\ ~success))

(***************************************************************************)
(* C2: for every well-formed UTF-8 text and every chunk size S >= 1, every *)
(* chunk the chunking loop cuts ends on a character boundary: the byte     *)
(* that follows the end of the chunk is not a continuation byte.           *)
(***************************************************************************)
C2_CharBoundary ==
    (chunked /\ WellFormed(text)) => CharBoundary(text, Len(cut))

(***************************************************************************)
(* C3: for every well-formed UTF-8 text given to inputLargeText on an      *)
(* initialized injector whose event creation never fails, the operation    *)
(* reports success and the key events posted carry exactly the code units  *)
(* of the text, in order.                                                  *)
(***************************************************************************)
C3_ExactDelivery ==
    (pc = "done" /\ isInitialized /\ WellFormed(text) /\ failures = 0)
        => (success /\ posted = KeyPairs(TextUnits(text)))

(***************************************************************************)
(* C4: for every text and every chunk size S >= 1 the chunking loop cuts a *)
(* finite sequence of chunks: an insertion that has started eventually     *)
(* finishes, with every chunk delivered or with a chunk failure.           *)
(***************************************************************************)
C4_Terminates == (pc \in {"loop", "events"}) ~> (pc = "done")

(***************************************************************************)
(* C5: for every non-empty text and every chunk size S >= 1, every chunk   *)
(* the chunking loop cuts is non-empty: its adjusted length is at least 1. *)
(***************************************************************************)
C5_NonEmptyChunk ==
    (chunked /\ pc = "events") => (adjustedChunkSize >= 1 /\ chunk # <<>>)

(***************************************************************************)
(* C6: an insertion request made while the injector is uninitialized (the  *)
(* singleton holds no event source) returns failure, posts no key event    *)
(* and leaves the injector as it was; so does a request whose construction *)
(* of the singleton is refused its event source, up to the construction.   *)
(***************************************************************************)
C6_UninitializedFails ==
    [][(pc = "idle" /\ pc' # "idle") =>
         /\ ~isInitialized' => (pc' = "done" /\ ~success' /\ posted' = <<>>)
         /\ (gKeyboardSystem = "instance" /\ ~isInitialized) => UNCHANGED injector
      ]_vars

\* a request made of an existing, uninitialized singleton has returned
C6_Witness ==
    /\ pc = "done"
    /\ caller = "direct"
    /\ text # <<>>
    /\ ~isInitialized
    /\ ~success

(***************************************************************************)
(* C7: in a multi-chunk insertion, when the bytes of chunk k cannot be     *)
(* decoded as UTF-8 the operation returns failure, no key event is posted  *)
(* for chunk k or for a later chunk, and the events posted for the chunks  *)
(* before k stay posted.                                                   *)
(***************************************************************************)
C7_ChunkFailureAborts ==
    [][/\ (pc = "loop" /\ position < Len(text) /\ pc' # "loop"
              /\ ~CFStringCreateWithCString(chunk').ok)
          => (pc' = "done" /\ ~success' /\ posted' = posted)
       /\ (pc = "done" /\ pc' = "done") => posted' = posted
      ]_vars

\* chunk k >= 2 failed after events of earlier chunks were posted
C7_Witness ==
    /\ pc = "done"
    /\ chunked
    /\ ~success
    /\ chunkCount >= 1
    /\ posted # <<>>
    /\ ~CFStringCreateWithCString(chunk).ok

(***************************************************************************)
(* C8: at every point of an insertion the events posted so far are a       *)
(* prefix of down(u1), up(u1), down(u2), up(u2), ... where u1, u2, ... are *)
(* the UTF-16 code units of the text in text order.                        *)
(***************************************************************************)
C8_EventOrder ==
    WellFormed(text) => IsPrefix(posted, KeyPairs(TextUnits(text)))

(***************************************************************************)
(* C9: no failure is swallowed: whenever an insertion reports success the  *)
(* platform refused no key event and a key-down and a key-up were posted   *)
(* for every code unit of the text.                                        *)
(***************************************************************************)
C9_NoSwallowedFailure ==
    (pc = "done" /\ success /\ WellFormed(text))
        => (failures = 0 /\ posted = KeyPairs(TextUnits(text)))

(***************************************************************************)
(* C10: initialize() is idempotent: called on an initialized injector it   *)
(* leaves the injector initialized with the same event source and creates  *)
(* no second event source.                                                 *)
(***************************************************************************)
C10_InitializeIdempotent ==
    [][(pc = "idle" /\ pc' = "idle" /\ isInitialized /\ gKeyboardSystem' = "instance")
          => (isInitialized' /\ source' = source /\ created' = created)
      ]_vars

(***************************************************************************)
(* C11: a refusal by the platform to create the event source fails only    *)
(* the request during which it happened: whenever no request is running    *)
(* and the platform would grant an event source, an insertion request can  *)
(* initialize the injector and succeed.                                    *)
(***************************************************************************)
C11_Recoverable ==
    (pc = "idle" /\ pc2 = "idle" /\ created < MaxSources)
        => ENABLED (simulateKeyboardInput /\ isInitialized' /\ pc' = "done" /\ success')

(***************************************************************************)
(* A second caller of InsertText, running on another thread at the same    *)
(* time as the first.  Nothing in the code orders the two: each step below *)
(* is one statement of the second caller and may fall anywhere between the *)
(* steps of the first.                                                     *)
(***************************************************************************)
\* InsertText -> simulateKeyboardInput -> getKeyboardSystem: the test
\* `if (!gKeyboardSystem)`
SecondEnter ==
    /\ pc2 = "idle"
    /\ \E t \in Texts2 : text2' = t
    /\ pc2' = IF gKeyboardSystem = "nullptr" THEN "construct" ELSE "check"
    /\ UNCHANGED <<injector, pc, request, unicodeChars2, i2, success2, tap>>

\* getKeyboardSystem: `gKeyboardSystem = new KeyboardInputSystem()`, after a
\* test that found the pointer null
SecondConstruct ==
    /\ pc2 = "construct"
    /\ \E grant \in BOOLEAN : initialize(grant)
    /\ gKeyboardSystem' = "instance"
    /\ objects' = objects + 1
    /\ pc2' = "check"
    /\ UNCHANGED <<released, pc, request, text2, unicodeChars2, i2, success2, tap>>

\* simulateKeyboardInput from the test of isInitialized() on, then
\* inputLargeText with the default chunk size, up to the first event
SecondCheck ==
    /\ pc2 = "check"
    /\ LET cfString == CFStringCreateWithCString(text2)
       IN  IF NotInitialized(isInitialized)
           THEN pc2' = "done" /\ success2' = FALSE /\ UNCHANGED <<unicodeChars2, i2>>
           ELSE IF IsEmptyText(text2)
           THEN pc2' = "done" /\ success2' = TRUE /\ UNCHANGED <<unicodeChars2, i2>>
           ELSE IF DeliveryFailed(cfString)
           THEN pc2' = "done" /\ success2' = FALSE /\ UNCHANGED <<unicodeChars2, i2>>
           ELSE /\ pc2' = "events"
                /\ unicodeChars2' = cfString.units
                /\ i2' = 0
                /\ UNCHANGED success2
    /\ UNCHANGED <<injector, pc, request, text2, tap>>

\* one iteration of the for loop of inputUnicodeText, second caller
SecondEvent ==
    /\ pc2 = "events"
    /\ i2 < Len(unicodeChars2)
    /\ \E downOk \in BOOLEAN, upOk \in BOOLEAN :
          /\ ~downOk => upOk
          /\ failures' = failures + (IF downOk /\ upOk THEN 0 ELSE 1)
          /\ failures' <= MaxEventFailures
          /\ tap' = tap \o TapOf(2, EventsOf(unicodeChars2[i2 + 1], downOk, upOk))
    /\ i2' = i2 + 1
    /\ UNCHANGED <<injector, pc, caller, text, chunkSize, chunked, position,
                   chunkCount, adjustedChunkSize, chunk, unicodeChars, i,
                   posted, cut, charDelays, chunkDelays, success, method,
                   error, deliveries, pc2, text2, unicodeChars2, success2>>

\* inputUnicodeText returns true to the second caller
SecondDelivered ==
    /\ pc2 = "events"
    /\ i2 >= Len(unicodeChars2)
    /\ pc2' = "done"
    /\ success2' = TRUE
    /\ UNCHANGED <<injector, pc, request, text2, unicodeChars2, i2, tap>>

\* the second caller has its result
SecondReturn ==
    /\ pc2 = "done"
    /\ pc2' = "idle"
    /\ text2' = <<>>
    /\ unicodeChars2' = <<>>
    /\ i2' = 0
    /\ success2' = FALSE
    /\ tap' = SelectSeq(tap, LAMBDA c : c # 2)
    /\ UNCHANGED <<injector, pc, request>>

\* two callers of InsertText; cleanupKeyboardSystem has no caller in the
\* program and the binding never passes a chunk size
NextConcurrent ==
    \/ simulateKeyboardInput
    \/ inputUnicodeText
    \/ ChunkDelivered
    \/ Return
    \/ SecondEnter
    \/ SecondConstruct
    \/ SecondCheck
    \/ SecondEvent
    \/ SecondDelivered
    \/ SecondReturn

\* the program with two concurrent callers of InsertText
SpecConcurrent == Init /\ [][NextConcurrent]_vars

\* the tap holds an event of caller a, later one of caller b, later one of a
Interleaved(s) ==
    \E x, y, z \in 1..Len(s) : x < y /\ y < z /\ s[x] = s[z] /\ s[y] # s[x]

(***************************************************************************)
(* C12: at most one insertion is in flight through the singleton at a      *)
(* time: with two concurrent callers the second waits or is rejected, so   *)
(* the key events of the two requests are never interleaved in the posted  *)
(* stream, and the singleton is constructed at most once.                  *)
(***************************************************************************)
C12_OneInFlight ==
    /\ ~(pc \in {"loop", "events"} /\ pc2 \in {"construct", "check", "events"})
    /\ ~Interleaved(tap)
    /\ objects <= 1

\* an insertion of a text of at most chunkSize bytes is going on, or has
\* returned, on an initialized injector
ShortText == caller # "none" /\ isInitialized /\ Len(text) <= chunkSize

\* the text went down the single-chunk path: one call of inputTextInternal
\* with the whole text, no iteration of the chunking loop, no 100 ms delay
OneChunk ==
    /\ ~chunked
    /\ pc # "loop"
    /\ deliveries = 1
    /\ chunk = text
    /\ chunkCount = 0
    /\ chunkDelays = 0

(***************************************************************************)
(* C13, as claimed: every text T of at most S bytes, the empty text        *)
(* included, is delivered as exactly one chunk equal to T through the      *)
(* single-chunk path.                                                      *)
(***************************************************************************)
C13_AnyShortText == ShortText => OneChunk

(***************************************************************************)
(* C13, amended: every non-empty text T of at most S bytes is delivered as *)
(* exactly one chunk equal to T through the single-chunk path: the         *)
(* chunking loop is not entered and no inter-chunk delay occurs.           *)
(***************************************************************************)
C13_SingleChunk == (ShortText /\ text # <<>>) => OneChunk

\* a text of exactly chunkSize bytes has been delivered
C13_Witness ==
    /\ pc = "done"
    /\ caller = "direct"
    /\ success
    /\ text # <<>>
    /\ Len(text) = chunkSize
    /\ posted # <<>>

(***************************************************************************)
(* C14: the result of an insertion request is consistent with its outcome: *)
(* success is true only when the injector is initialized and               *)
(* inputLargeText returned true, and then method is "keyboard" and error   *)
(* is null; otherwise success is false, method is the empty string and     *)
(* error is a non-empty message.                                           *)
(***************************************************************************)
C14_ResultConsistent ==
    (pc = "done" /\ caller = "binding") =>
        /\ success => (isInitialized /\ method = "keyboard" /\ error = "null")
        /\ ~success => (method = "" /\ error = "message")
        /\ ~isInitialized => ~success

\* InsertText has built the result of a failed delivery on an initialized
\* injector
C14_Witness ==
    /\ pc = "done"
    /\ caller = "binding"
    /\ isInitialized
    /\ ~success
    /\ method = ""
    /\ error = "message"

(***************************************************************************)
(* C15: on an initialized injector inputLargeText with the empty text      *)
(* reports success at once, hands no chunk to the delivery, posts no key   *)
(* event and performs no delay.                                            *)
(***************************************************************************)
C15_EmptyText ==
    (caller # "none" /\ isInitialized /\ text = <<>>) =>
        /\ pc = "done"
        /\ success
        /\ ~chunked
        /\ deliveries = 0
        /\ posted = <<>>
        /\ charDelays = 0
        /\ chunkDelays = 0

\* inputLargeText("") has returned on an initialized injector
C15_Witness ==
    /\ pc = "done"
    /\ caller = "direct"
    /\ isInitialized
    /\ text = <<>>
    /\ success

\* 110xxxxx, 1110xxxx or 11110xxx
LeadPattern(b) == (b >= 192 /\ b <= 223) \/ (b >= 224 /\ b <= 239) \/ (b >= 240 /\ b <= 247)

\* the single-byte backoff rule for a chunk that starts at byte p with
\* candidate length c
BackoffRule(t, p, c) ==
    IF p + c >= Len(t) THEN c
    ELSE IF LeadPattern(t[p + c]) THEN c - 1
    ELSE c

\* 2500 ASCII bytes
AsciiText == [k \in 1..2500 |-> 97]

\* 999 one-byte characters followed by one 4-byte character
MixedText == [k \in 1..1003 |-> IF k <= 999 THEN 97 ELSE IF k = 1000 THEN 240 ELSE 159]

\* the chunk lengths the loop cuts from the two large texts at the default
\* chunk size
LargeTextExamples ==
    /\ ChunkLengthsFrom(AsciiText, DefaultChunkSize, 0) = <<1000, 1000, 500>>
    /\ ChunkLengthsFrom(MixedText, DefaultChunkSize, 0) = <<999, 4>>
    /\ substr(MixedText, 999, 4) = <<240, 159, 159, 159>>

\* the chunking loop has cut a chunk at position and not yet moved on
ChunkJustCut == chunked /\ deliveries >= 1 /\ (pc = "events" \/ (pc = "done" /\ ~success))

(***************************************************************************)
(* C16: adjustChunkSize follows the single-byte backoff rule: for a chunk  *)
(* starting at p with candidate length c = min(S, remaining) the length is *)
(* c when p + c is the end of the text, c - 1 when the byte at p + c - 1   *)
(* is a lead byte, c otherwise.  So 2500 ASCII bytes with S = 1000 give    *)
(* chunks of 1000, 1000, 500 bytes, and 999 one-byte characters followed   *)
(* by a 4-byte character give a chunk of 999 bytes and then the whole      *)
(* 4-byte character.                                                       *)
(***************************************************************************)
C16_BackoffRule ==
    /\ ChunkJustCut =>
          /\ adjustedChunkSize =
                BackoffRule(text, position, Min(chunkSize, Len(text) - position))
          /\ chunk = SubSeq(text, position + 1, position + adjustedChunkSize)
    /\ LargeTextExamples

\* a chunk was shortened by one byte to end before a lead byte
C16_Witness ==
    /\ ChunkJustCut
    /\ pc = "events"
    /\ adjustedChunkSize >= 1
    /\ adjustedChunkSize = chunkSize - 1
    /\ position + chunkSize < Len(text)
    /\ LeadPattern(text[position + chunkSize])

\* handle k has been passed to CFRelease
Released(k) == \E j \in 1..Len(released) : released[j] = k

(***************************************************************************)
(* C17: cleanup releases the event source and leaves no singleton, and the *)
(* next insertion request constructs a fresh singleton with a fresh event  *)
(* source; over any sequence of first uses, insertions and cleanups every  *)
(* event source created is held by the singleton or has been released,     *)
(* none is released twice and none is used after its release.              *)
(***************************************************************************)
C17_SourceLifecycle ==
    /\ [](/\ \A k \in 1..created : (k = source) # Released(k)
          /\ \A j, k \in 1..Len(released) : released[j] = released[k] => j = k
          /\ gKeyboardSystem = "nullptr" =>
                (source = NULL /\ ~isInitialized /\ Len(released) = created)
          /\ pc \in {"loop", "events"} => (source # NULL /\ ~Released(source)))
    /\ [][/\ (gKeyboardSystem = "instance" /\ gKeyboardSystem' = "nullptr") =>
                /\ source # NULL => released' = Append(released, source)
                /\ source = NULL => released' = released
          /\ (gKeyboardSystem = "nullptr" /\ gKeyboardSystem' = "instance"
                 /\ isInitialized') =>
                (source' = created + 1 /\ ~Released(source'))
         ]_vars

\* after a cleanup a request has constructed a fresh singleton and posted
\* events from its fresh event source
C17_Witness ==
    /\ gKeyboardSystem = "instance"
    /\ released = <<1>>
    /\ source = 2
    /\ pc = "done"
    /\ success
    /\ posted # <<>>

(***************************************************************************)
(* C18: a successful insertion of a text split into n chunks with m code   *)
(* units in total performs exactly m inter-character delays, one after the *)
(* key-down/key-up pair of each code unit, and exactly n - 1 inter-chunk   *)
(* delays, one after each chunk but the last.                              *)
(***************************************************************************)
C18_Pacing ==
    (pc = "done" /\ success /\ text # <<>> /\ WellFormed(text)) =>
        /\ charDelays = Len(TextUnits(text))
        /\ chunkDelays = deliveries - 1

(***************************************************************************)
(* C19: in every state of a KeyboardInputSystem after its constructor      *)
(* returned, the initialized flag is true exactly when the object holds a  *)
(* non-null event source; so no key event is created from a null event     *)
(* source: the event loop runs only with a non-null source.                *)
(***************************************************************************)
C19_FlagMatchesSource ==
    /\ isInitialized <=> (source # NULL)
    /\ pc \in {"loop", "events"} => source # NULL
    /\ posted # <<>> => source # NULL

\* key events have been created from the event source of an initialized
\* injector
C19_Witness ==
    /\ gKeyboardSystem = "instance"
    /\ isInitialized
    /\ source # NULL
    /\ pc = "events"
    /\ posted # <<>>

====
